---- MODULE Spec2Model ----
(***************************************************************************)
(* Model of the runtime-context crate: a Context is a map from a type      *)
(* identity to a Data variant (Owned, Borrowed, Mut).  Borrowed and Mut    *)
(* variants refer to values that live outside the Context (cells).         *)
(***************************************************************************)
EXTENDS Integers, FiniteSets, Sequences, TLC

\* ---------------------------------------------------------------- bounds
MaxVal == 1
NumCells == 1

Values == 0..MaxVal
Cells == 1..NumCells

\* The type identities of two stored types (struct A and struct B of
\* test_get_disjoint_mut).
TypeSeq == <<"A", "B">>
TypeIds == {TypeSeq[i] : i \in 1..Len(TypeSeq)}

\* The concrete type of an external value: the first is an A, the second a B, ...
CellType(c) == TypeSeq[((c - 1) % Len(TypeSeq)) + 1]

VARIABLES data, ext, lent, last
vars == <<data, ext, lent, last>>

\* ---------------------------------------------------------------- Data
\* enum Data { Owned(Box<dyn ShareableTid>), Borrowed(&dyn ..), Mut(&mut dyn ..) }
\* ty is the erased payload's own type identity (self_id), val the payload of
\* an Owned box, ref the external value a borrowed variant points to.
Owned(t, v) == [kind |-> "Owned", ty |-> t, val |-> v, ref |-> 0]
Borrowed(c) == [kind |-> "Borrowed", ty |-> CellType(c), val |-> 0, ref |-> c]
Mut(c) == [kind |-> "Mut", ty |-> CellType(c), val |-> 0, ref |-> c]

Data == {Owned(t, v) : t \in TypeIds, v \in Values}
          \cup {Borrowed(c) : c \in Cells} \cup {Mut(c) : c \in Cells}

\* Option and Result
None == <<>>
Some(x) == <<x>>
IsSome(o) == Len(o) = 1
Unwrap(o) == o[1]
Ok(x) == [tag |-> "Ok", v |-> x]
Err(d) == [tag |-> "Err", d |-> d]

\* The value a variant currently denotes, given the external values e.
ValueOf(d, e) == IF d.kind = "Owned" THEN d.val ELSE e[d.ref]

\* Data::downcast_ref::<T>
downcast_ref(d, T, e) == IF d.ty = T THEN Some(ValueOf(d, e)) ELSE None

\* downcast_mut with the Borrowed arm handled like the Mut arm.
downcast_mut_Shared(d, T) ==
    IF d.ty # T THEN None
    ELSE IF d.kind = "Owned" THEN Some([loc |-> "box", ref |-> 0])
    ELSE Some([loc |-> "cell", ref |-> d.ref])

\* Data::downcast_mut::<T>: the place the returned &mut T writes to.
downcast_mut(d, T) ==
    IF d.ty # T THEN None
    ELSE IF d.kind = "Owned" THEN Some([loc |-> "box", ref |-> 0])
    ELSE IF d.kind = "Mut" THEN Some([loc |-> "cell", ref |-> d.ref])
    ELSE None

\* A clone that is still the referent itself.
CloneOf_Alias(d, e) == [loc |-> "cell", ref |-> d.ref, val |-> e[d.ref]]

\* value.clone(): a fresh value, not a handle onto the referent.
CloneOf(d, e) == [loc |-> "fresh", ref |-> 0, val |-> e[d.ref]]

\* Data::into_owned::<T>
into_owned(d, T, e) ==
    IF d.kind = "Owned"
    THEN IF d.ty = T THEN Ok([loc |-> "fresh", ref |-> 0, val |-> d.val]) ELSE Err(d)
    ELSE IF d.ty = T THEN Ok(CloneOf(d, e)) ELSE Err(d)

\* try_take_owned that clones out of a borrowed variant, as into_owned does.
try_take_owned_Clone(d, T) ==
    IF d.ty = T THEN Ok(IF d.kind = "Owned" THEN d.val ELSE 0) ELSE Err(d)

\* Data::try_take_owned::<T>
try_take_owned(d, T) ==
    IF d.kind = "Owned"
    THEN IF d.ty = T THEN Ok(d.val) ELSE Err(d)
    ELSE Err(d)

\* ---------------------------------------------------------------- TypeMap
\* HashMap<TypeId, Data>, kept as a set of entries so that "one entry per
\* key" is a property of the operations and not of the representation.
Entry(k, d) == [key |-> k, data |-> d]
Keys(m) == {x.key : x \in m}
MapContains(m, k) == \E x \in m : x.key = k
MapGet(m, k) == IF MapContains(m, k)
                THEN Some((CHOOSE x \in m : x.key = k).data)
                ELSE None
\* An insert that keeps what the key already held.
MapInsert_Stack(m, k, d) == m \cup {Entry(k, d)}
MapInsert(m, k, d) == {x \in m : x.key # k} \cup {Entry(k, d)}
MapRemove(m, k) == {x \in m : x.key # k}
\* A clear that only drops the Owned entries.
MapClear_OwnedOnly(m) == {x \in m : x.data.kind # "Owned"}
MapClear(m) == {}

\* Both handles onto the entry of the first key.
MapGetDisjointMut_Alias(m, k1, k2) ==
    << IF MapContains(m, k1) THEN Some(k1) ELSE None,
       IF MapContains(m, k2) THEN Some(k1) ELSE None >>

\* HashMap::get_disjoint_mut for two keys: one handle per key, in order.
MapGetDisjointMut(m, k1, k2) ==
    << IF MapContains(m, k1) THEN Some(k1) ELSE None,
       IF MapContains(m, k2) THEN Some(k2) ELSE None >>

\* ---------------------------------------------------------------- Context
NoArg == [tag |-> "NoArg"]
\* The last call: its name, its type or key argument, its other argument, what
\* the map held for that key when it was made, and what it returned.
Call(o, k, a, b, r) == [op |-> o, key |-> k, arg |-> a, old |-> b, ret |-> r]

\* Context::get::<T>
ContextGet(m, T, e) ==
    LET o == MapGet(m, T) IN IF IsSome(o) THEN downcast_ref(Unwrap(o), T, e) ELSE None

\* Context::get_mut::<T>
ContextGetMut(m, T) ==
    LET o == MapGet(m, T) IN IF IsSome(o) THEN downcast_mut(Unwrap(o), T) ELSE None

\* Context::contains::<T>
ContextContains(m, T) == MapContains(m, T)

\* Context::take::<T>: the returned Option<T>
TakeResult(m, T) ==
    LET o == MapGet(m, T) IN
    IF IsSome(o)
    THEN LET r == try_take_owned(Unwrap(o), T) IN
         IF r.tag = "Ok" THEN Some(r.v) ELSE None
    ELSE None

Init ==
    /\ data = {}
    /\ ext \in [Cells -> Values]
    /\ lent = [c \in Cells |-> "none"]
    /\ last = Call("new", "A", NoArg, NoArg, None)

\* Context::insert_unchecked(key, data)
InsertUnchecked(k, d) ==
    /\ d.kind = "Borrowed" => lent[d.ref] # "mut"
    /\ d.kind = "Mut" => lent[d.ref] = "none"
    /\ data' = MapInsert(data, k, d)
    /\ lent' = IF d.kind = "Borrowed" THEN [lent EXCEPT ![d.ref] = "shared"]
               ELSE IF d.kind = "Mut" THEN [lent EXCEPT ![d.ref] = "mut"]
               ELSE lent
    /\ last' = Call("insert_unchecked", k, d, MapGet(data, k), None)
    /\ UNCHANGED ext

\* Context::insert_ref::<T>(&value)
InsertRef(c) ==
    /\ lent[c] # "mut"
    /\ data' = MapInsert(data, CellType(c), Borrowed(c))
    /\ lent' = [lent EXCEPT ![c] = "shared"]
    /\ last' = Call("insert_ref", CellType(c), Borrowed(c), MapGet(data, CellType(c)), None)
    /\ UNCHANGED ext

\* Context::insert_mut::<T>(&mut value)
InsertMut(c) ==
    /\ lent[c] = "none"
    /\ data' = MapInsert(data, CellType(c), Mut(c))
    /\ lent' = [lent EXCEPT ![c] = "mut"]
    /\ last' = Call("insert_mut", CellType(c), Mut(c), MapGet(data, CellType(c)), None)
    /\ UNCHANGED ext

\* An insert that leaves an entry already present in place.
Insert_IfAbsent(T, v) ==
    /\ data' = IF MapContains(data, T) THEN data ELSE MapInsert(data, T, Owned(T, v))
    /\ last' = Call("insert", T, Owned(T, v), MapGet(data, T), None)
    /\ UNCHANGED <<ext, lent>>

\* Context::insert::<T>(value)
Insert(T, v) ==
    /\ data' = MapInsert(data, T, Owned(T, v))
    /\ last' = Call("insert", T, Owned(T, v), MapGet(data, T), None)
    /\ UNCHANGED <<ext, lent>>

\* Context::get::<T>
Get(T) ==
    /\ last' = Call("get", T, NoArg, MapGet(data, T), ContextGet(data, T, ext))
    /\ UNCHANGED <<data, ext, lent>>

\* A get_mut that evicts the entry it cannot hand out mutably.
GetMut_Evict(T) ==
    /\ last' = Call("get_mut", T, NoArg, MapGet(data, T), ContextGetMut(data, T))
    /\ data' = IF IsSome(ContextGetMut(data, T)) THEN data ELSE MapRemove(data, T)
    /\ UNCHANGED <<ext, lent>>

\* Context::get_mut::<T>
GetMut(T) ==
    /\ last' = Call("get_mut", T, NoArg, MapGet(data, T), ContextGetMut(data, T))
    /\ UNCHANGED <<data, ext, lent>>

\* Context::get_data(&id)
GetData(k) ==
    /\ last' = Call("get_data", k, NoArg, MapGet(data, k), MapGet(data, k))
    /\ UNCHANGED <<data, ext, lent>>

\* Context::get_data_mut(&id): a handle onto the entry stored under id
GetDataMut(k) ==
    /\ last' = Call("get_data_mut", k, NoArg, MapGet(data, k),
                    IF MapContains(data, k) THEN Some(k) ELSE None)
    /\ UNCHANGED <<data, ext, lent>>

\* Context::get_disjoint_mut([&k1, &k2]); the keys are pairwise distinct
\* (HashMap::get_disjoint_mut rejects overlapping keys).
GetDisjointMut(k1, k2) ==
    /\ k1 # k2
    /\ last' = Call("get_disjoint_mut", k1, k2, NoArg, MapGetDisjointMut(data, k1, k2))
    /\ UNCHANGED <<data, ext, lent>>

\* Context::contains::<T>
Contains(T) ==
    /\ last' = Call("contains", T, NoArg, MapGet(data, T), ContextContains(data, T))
    /\ UNCHANGED <<data, ext, lent>>

\* A take that removes the entry only when it hands the value out.
Take_KeepBorrowed(T) ==
    /\ data' = IF IsSome(TakeResult(data, T)) THEN MapRemove(data, T) ELSE data
    /\ last' = Call("take", T, NoArg, MapGet(data, T), TakeResult(data, T))
    /\ UNCHANGED <<ext, lent>>

\* A take that moves the value out of a Mut entry's referent (mem::take),
\* leaving the default value behind.
Take_MovesOut(T) ==
    /\ data' = MapRemove(data, T)
    /\ last' = Call("take", T, NoArg, MapGet(data, T), TakeResult(data, T))
    /\ ext' = IF MapContains(data, T) /\ Unwrap(MapGet(data, T)).kind = "Mut"
              THEN [ext EXCEPT ![Unwrap(MapGet(data, T)).ref] = 0]
              ELSE ext
    /\ UNCHANGED lent

\* Context::take::<T>
Take(T) ==
    /\ data' = MapRemove(data, T)
    /\ last' = Call("take", T, NoArg, MapGet(data, T), TakeResult(data, T))
    /\ UNCHANGED <<ext, lent>>

\* Context::remove::<T>
Remove(T) ==
    /\ data' = MapRemove(data, T)
    /\ last' = Call("remove", T, NoArg, MapGet(data, T), MapGet(data, T))
    /\ UNCHANGED <<ext, lent>>

\* Context::clear
Clear ==
    /\ data' = MapClear(data)
    /\ last' = Call("clear", "A", NoArg, data, None)
    /\ UNCHANGED <<ext, lent>>

\* The Context goes out of scope: every entry is dropped and every borrow
\* of lifetime 'r ends; a new empty Context takes its place.
DropContext ==
    /\ data # {}
    /\ data' = {}
    /\ lent' = [c \in Cells |-> "none"]
    /\ last' = Call("drop", "A", NoArg, data, None)
    /\ UNCHANGED ext

\* A write of w through the &mut T that downcast_mut::<T> gave for the entry
\* stored under k: into the box of an Owned entry, into the referent of a Mut
\* entry, nowhere when downcast_mut gave None.
WriteEntry(m, k, T, w) ==
    LET o == MapGet(m, k) IN
    IF IsSome(o) /\ IsSome(downcast_mut(Unwrap(o), T))
                 /\ Unwrap(downcast_mut(Unwrap(o), T)).loc = "box"
    THEN MapInsert(m, k, Owned(Unwrap(o).ty, w))
    ELSE m
WriteCell(m, e, k, T, w) ==
    LET o == MapGet(m, k) IN
    IF IsSome(o) /\ IsSome(downcast_mut(Unwrap(o), T))
                 /\ Unwrap(downcast_mut(Unwrap(o), T)).loc = "cell"
    THEN [e EXCEPT ![Unwrap(downcast_mut(Unwrap(o), T)).ref] = w]
    ELSE e

\* The caller assigns through the reference get_mut::<T> returned.
WriteMut(w) ==
    /\ last.op = "get_mut"
    /\ IsSome(last.ret)
    /\ data' = WriteEntry(data, last.key, last.key, w)
    /\ ext' = WriteCell(data, ext, last.key, last.key, w)
    /\ last' = Call("write_mut", last.key, w, last.old, None)
    /\ UNCHANGED lent

\* The caller downcasts both handles of get_disjoint_mut (each to the type of
\* its key) and assigns w1 through the first and w2 through the second.
WriteDisjoint(w1, w2) ==
    /\ last.op = "get_disjoint_mut"
    /\ LET h1 == last.ret[1]
           h2 == last.ret[2]
           m1 == IF IsSome(h1) THEN WriteEntry(data, Unwrap(h1), last.key, w1) ELSE data
           e1 == IF IsSome(h1) THEN WriteCell(data, ext, Unwrap(h1), last.key, w1) ELSE ext
       IN /\ data' = IF IsSome(h2) THEN WriteEntry(m1, Unwrap(h2), last.arg, w2) ELSE m1
          /\ ext' = IF IsSome(h2) THEN WriteCell(m1, e1, Unwrap(h2), last.arg, w2) ELSE e1
    /\ last' = Call("write_disjoint", last.key, last.arg, NoArg, <<w1, w2>>)
    /\ UNCHANGED lent

\* Data::try_take_owned::<T> on the variant remove::<K> returned; the call
\* record keeps K as arg and the variant as old.
TryTakeOwned(T) ==
    /\ last.op = "remove"
    /\ IsSome(last.ret)
    /\ last' = Call("try_take_owned", T, last.key, last.ret, try_take_owned(Unwrap(last.ret), T))
    /\ UNCHANGED <<data, ext, lent>>

\* Data::into_owned::<T> on the variant remove::<K> returned
IntoOwned(T) ==
    /\ last.op = "remove"
    /\ IsSome(last.ret)
    /\ last' = Call("into_owned", T, last.key, last.ret, into_owned(Unwrap(last.ret), T, ext))
    /\ UNCHANGED <<data, ext, lent>>

\* The caller assigns w to the value into_owned returned: a write into the
\* place that value occupies.
MutateOwned(w) ==
    /\ last.op = "into_owned"
    /\ last.ret.tag = "Ok"
    /\ ext' = IF last.ret.v.loc = "cell" THEN [ext EXCEPT ![last.ret.v.ref] = w] ELSE ext
    /\ last' = Call("mutate_owned", last.key, last.arg, last.old, Ok([last.ret.v EXCEPT !.val = w]))
    /\ UNCHANGED <<data, lent>>

Next ==
    \/ \E T \in TypeIds : Get(T)
    \/ \E T \in TypeIds : GetMut(T)
    \/ \E k \in TypeIds : GetData(k)
    \/ \E k \in TypeIds : GetDataMut(k)
    \/ \E k1 \in TypeIds, k2 \in TypeIds : GetDisjointMut(k1, k2)
    \/ \E T \in TypeIds : Contains(T)
    \/ \E T \in TypeIds : Take(T)
    \/ \E T \in TypeIds : Remove(T)
    \/ Clear
    \/ DropContext
    \/ \E w \in Values : WriteMut(w)
    \/ \E w1 \in Values, w2 \in Values : WriteDisjoint(w1, w2)
    \/ \E T \in TypeIds : TryTakeOwned(T)
    \/ \E T \in TypeIds : IntoOwned(T)
    \/ \E w \in Values : MutateOwned(w)
    \/ \E k \in TypeIds, d \in Data : InsertUnchecked(k, d)
    \/ \E c \in Cells : InsertRef(c)
    \/ \E c \in Cells : InsertMut(c)
    \/ \E T \in TypeIds, v \in Values : Insert(T, v)

Spec == Init /\ [][Next]_vars

\* ---------------------------------------------------------------- properties
InsertOps == {"insert", "insert_ref", "insert_mut", "insert_unchecked"}
GetOps == {"get", "get_mut", "get_data", "get_data_mut", "contains", "get_disjoint_mut"}
WriteOps == {"write_mut", "write_disjoint"}
Shape(m) == {<<x.key, x.data.kind>> : x \in m}

\* C1 as stated: take::<T>() always leaves contains::<T>() false; it returns
\* the stored value whenever the entry was Owned, and None whenever the entry
\* was Borrowed or Mut.
C1_TakeAsStated ==
    (last.op = "take" /\ IsSome(last.old)) =>
        LET d == Unwrap(last.old) IN
        /\ ~ContextContains(data, last.key)
        /\ IF d.kind = "Owned" THEN last.ret = Some(d.val) ELSE last.ret = None

\* C1 amended: take::<T>() always leaves contains::<T>() false; it returns the
\* stored value when the entry was Owned with a payload of type T, and None
\* when the entry was Borrowed, Mut, or Owned with a payload of another type.
C1_Take ==
    (last.op = "take" /\ IsSome(last.old)) =>
        LET d == Unwrap(last.old) IN
        /\ ~ContextContains(data, last.key)
        /\ ~IsSome(ContextGet(data, last.key, ext))
        /\ IF d.kind = "Owned" /\ d.ty = last.key
           THEN last.ret = Some(d.val)
           ELSE last.ret = None

\* take::<T>() met a borrowed entry: it returned None and the entry is gone.
C1_Witness ==
    /\ last.op = "take"
    /\ IsSome(last.old)
    /\ Unwrap(last.old).kind \in {"Borrowed", "Mut"}
    /\ last.ret = None
    /\ ~ContextContains(data, last.key)

\* C2: right after insert_ref::<T>(&v), get_mut::<T>() is None while get::<T>()
\* is Some(v) and contains::<T>() is true; and get_mut on a Borrowed entry
\* always returns None.
C2_RefNeverMut ==
    /\ last.op = "insert_ref" =>
          /\ ~IsSome(ContextGetMut(data, last.key))
          /\ ContextGet(data, last.key, ext) = Some(ext[last.arg.ref])
          /\ ContextContains(data, last.key)
    /\ (last.op = "get_mut" /\ IsSome(last.old) /\ Unwrap(last.old).kind = "Borrowed") =>
          ~IsSome(last.ret)

C2_Witness ==
    /\ last.op = "insert_ref"
    /\ ext[last.arg.ref] = 1
    /\ ContextGet(data, last.key, ext) = Some(1)

\* C3: the Context holds at most one entry per type identity; right after any
\* insert the only entry of its key is the Data just inserted (its value and
\* its ownership mode), whatever the key held before; and after one remove
\* contains is false.
C3_Replace ==
    /\ \A k \in TypeIds : Cardinality({x \in data : x.key = k}) <= 1
    /\ last.op \in InsertOps =>
          /\ {x \in data : x.key = last.key} = {Entry(last.key, last.arg)}
          /\ last.arg.ty = last.key =>
                ContextGet(data, last.key, ext) = Some(ValueOf(last.arg, ext))
    /\ last.op = "remove" => ~ContextContains(data, last.key)

\* An insert_mut replaced an Owned entry of the same type.
C3_Witness ==
    /\ last.op = "insert_mut"
    /\ IsSome(last.old)
    /\ Unwrap(last.old).kind = "Owned"
    /\ Unwrap(last.old).ty = last.key

\* C4: right after insert(v), get::<T>() is Some(v) and contains::<T>() is
\* true, whatever the Context held before.
C4_InsertGet ==
    last.op = "insert" =>
        /\ ContextGet(data, last.key, ext) = Some(last.arg.val)
        /\ ContextContains(data, last.key)

\* insert(v) over an entry that held another value.
C4_Witness ==
    /\ last.op = "insert"
    /\ IsSome(last.old)
    /\ Unwrap(last.old).kind = "Owned"
    /\ Unwrap(last.old).ty = last.key
    /\ Unwrap(last.old).val # last.arg.val

\* C5: get_disjoint_mut([k1, k2]) gives one handle per key, in order, absent
\* for a key without entry; after writing w1 through the first and w2 through
\* the second, get of k1 is w1 and get of k2 is w2 for each entry that grants
\* mutable access, and every other entry and external value is as before.
C5_DisjointMut ==
    [][last'.op = "write_disjoint" =>
        LET k1 == last'.key
            k2 == last'.arg
            w1 == last'.ret[1]
            w2 == last'.ret[2]
            Mutable(k) == IsSome(ContextGetMut(data, k))
            Target(k) == IF Mutable(k) /\ Unwrap(MapGet(data, k)).kind = "Mut"
                         THEN {Unwrap(MapGet(data, k)).ref} ELSE {}
        IN /\ last.op = "get_disjoint_mut"
           /\ last.ret = << IF MapContains(data, k1) THEN Some(k1) ELSE None,
                            IF MapContains(data, k2) THEN Some(k2) ELSE None >>
           /\ Mutable(k1) => ContextGet(data', k1, ext') = Some(w1)
           /\ Mutable(k2) => ContextGet(data', k2, ext') = Some(w2)
           /\ Shape(data') = Shape(data)
           /\ \A k \in TypeIds :
                 (k \notin {k1, k2} \/ ~Mutable(k)) =>
                    /\ MapGet(data', k) = MapGet(data, k)
                    /\ ContextGet(data', k, ext') = ContextGet(data, k, ext)
           /\ \A c \in Cells \ (Target(k1) \cup Target(k2)) : ext'[c] = ext[c]
    ]_vars

\* Both entries were written, one of them through a Mut entry, with
\* different values.
C5_Witness ==
    /\ last.op = "write_disjoint"
    /\ last.key = "A"
    /\ last.ret = <<1, 0>>
    /\ MapGet(data, "A") = Some(Mut(1))
    /\ ContextGet(data, "A", ext) = Some(1)
    /\ ContextGet(data, "B", ext) = Some(0)

\* C6: after clear() contains::<T>() is false and get::<T>() is None for every
\* type, whatever the entries were; the Context is empty and accepts inserts.
C6_Clear ==
    last.op = "clear" =>
        /\ data = {}
        /\ \A T \in TypeIds :
              /\ ~ContextContains(data, T)
              /\ ~IsSome(ContextGet(data, T, ext))
              /\ \A v \in Values : ENABLED Insert(T, v)

\* clear() of a Context that held an Owned and a Mut entry.
C6_Witness ==
    /\ last.op = "clear"
    /\ \E x \in last.old : x.data.kind = "Owned"
    /\ \E x \in last.old : x.data.kind = "Mut"
    /\ data = {}

\* C7 as stated: remove::<T>() leaves contains::<T>() false, and
\* try_take_owned::<T>() on the variant it returned is Ok with the stored value
\* iff the entry was Owned, and otherwise Err with the same variant.
C7_RemoveAsStated ==
    /\ last.op = "remove" => ~ContextContains(data, last.key)
    /\ (last.op = "try_take_owned" /\ last.key = last.arg) =>
          LET d == Unwrap(last.old) IN
          /\ (last.ret.tag = "Ok") <=> (d.kind = "Owned")
          /\ IF last.ret.tag = "Ok" THEN last.ret.v = d.val ELSE last.ret.d = d

\* C7 amended: remove::<T>() leaves contains::<T>() false, and
\* try_take_owned::<T>() on the variant it returned is Ok with the stored value
\* iff the entry was Owned with a payload of type T; for a Borrowed or Mut
\* entry, and for an Owned entry with a payload of another type, it is Err
\* with the same variant.
C7_Remove ==
    /\ last.op = "remove" =>
          /\ ~ContextContains(data, last.key)
          /\ last.ret = last.old
    /\ (last.op = "try_take_owned" /\ last.key = last.arg) =>
          LET d == Unwrap(last.old) IN
          /\ (last.ret.tag = "Ok") <=> (d.kind = "Owned" /\ d.ty = last.key)
          /\ IF last.ret.tag = "Ok" THEN last.ret.v = d.val ELSE last.ret.d = d

\* try_take_owned::<T>() on a Mut variant that remove::<T>() returned.
C7_Witness ==
    /\ last.op = "try_take_owned"
    /\ last.key = last.arg
    /\ Unwrap(last.old).kind = "Mut"
    /\ last.ret = Err(Unwrap(last.old))
    /\ ~ContextContains(data, last.key)

C9_SourceUntouched ==
    [][last'.op \notin WriteOps => ext' = ext]_vars

\* take::<T>() consumed a Mut entry whose referent holds a non-default value.
C9_Witness ==
    /\ last.op = "take"
    /\ IsSome(last.old)
    /\ Unwrap(last.old).kind = "Mut"
    /\ ext[Unwrap(last.old).ref] # 0

\* C10: get, get_mut, get_data, get_data_mut, contains and get_disjoint_mut
\* leave the set of identities present and every entry's ownership mode as
\* they were; a lookup of an absent key, or a typed lookup of an entry of
\* another type, returns the empty result.
C10_GetKeepsShape ==
    [][last'.op \in GetOps =>
        /\ Shape(data') = Shape(data)
        /\ (last'.op \in {"get", "get_mut", "get_data", "get_data_mut"}
              /\ ~MapContains(data, last'.key)) => ~IsSome(last'.ret)
        /\ (last'.op \in {"get", "get_mut"} /\ MapContains(data, last'.key)
              /\ Unwrap(MapGet(data, last'.key)).ty # last'.key) => ~IsSome(last'.ret)
        /\ (last'.op = "contains") => (last'.ret = MapContains(data, last'.key))
        /\ (last'.op = "get_disjoint_mut") =>
              /\ ~MapContains(data, last'.key) => ~IsSome(last'.ret[1])
              /\ ~MapContains(data, last'.arg) => ~IsSome(last'.ret[2])
    ]_vars

\* get_mut::<T>() returned None for a Borrowed entry, which is still there.
C10_Witness ==
    /\ last.op = "get_mut"
    /\ IsSome(last.old)
    /\ Unwrap(last.old).kind = "Borrowed"
    /\ ~IsSome(last.ret)
    /\ MapGet(data, last.key) = last.old
====
